---------------------------- MODULE Spec2Model ----------------------------
(***************************************************************************)
(* A model of tools/build_defs/pkg/make_deb.py: the AR container writer    *)
(* (AddArFileEntry), the control file and control tarball builder          *)
(* (MakeDebianControlField, CreateDebControl), the package assembler       *)
(* (CreateDeb) and the changes file writer (GetChecksumsFromFile,          *)
(* CreateChanges).                                                         *)
(*                                                                         *)
(* Representation.  A Python string is a TLA+ string.  A byte string holds *)
(* one character per byte, a text (unicode) string one character per code  *)
(* point.  The model's alphabet has one non-ASCII code point, U+00E9,      *)
(* written "~" in text; its UTF-8 encoding is the two bytes 0xC3 0xA9,     *)
(* written "{" and "}" in byte strings.  The model's inputs never use      *)
(* these three characters for anything else.                               *)
(*                                                                         *)
(* A Python object is a record [t, v, items]: t is "none", "bytes" (str of *)
(* Python 2, bytes of Python 3), "text" (unicode of Python 2, str of       *)
(* Python 3), "list" (items holds the elements, each an object) or         *)
(* "file" (an open binary file whose unread content is v).                 *)
(*                                                                         *)
(* The source does not fix its interpreter: it holds Python 3 spellings    *)
(* (oct(mode).replace('0o', '0'), bytes literals) beside calls only        *)
(* Python 2 accepts (str.decode at line 145, writing encoded bytes to a    *)
(* text-mode file at line 285).  The variable py is the major version of   *)
(* the interpreter running the script; both are modelled.                  *)
(***************************************************************************)
EXTENDS Integers, Sequences, FiniteSets, TLC

VARIABLES
  py,       \* major version of the interpreter: 2 or 3
  call,     \* the arguments of the CreateDeb call: [kwargs, preinst, postinst, prerm, postrm, conffiles]
  data,     \* the data path: [name, exists, readable, content]
  out,      \* the output path: [exists, bytes]
  pc,       \* position of the caller / of CreateDeb
  exc,      \* the exception that ended the run, "" when none
  control,  \* the control tarball CreateDebControl returned: [controlfile, entries, bytes]
  ar,       \* log of the AddArFileEntry calls made on the output stream
  flags,    \* FLAGS of a run of main: flag name -> value; no flag for a direct caller
  env,      \* the environment of the process: its time zone and locale encoding
  changes   \* the changes path: [exists, bytes]

vars == <<py, call, data, out, pc, exc, control, ar, flags, env, changes>>

-----------------------------------------------------------------------------
(* Bounds of the model *)

\* direct AddArFileEntry calls a caller makes on one stream
MaxCalls == 2
\* the data file holds 0 .. MaxDataLen bytes
MaxDataLen == 3

-----------------------------------------------------------------------------
\* the element of a one-element set: Only({F(x) : x \in {e}}) is F(e), with e
\* evaluated once
Only(S) == CHOOSE x \in S : TRUE

-----------------------------------------------------------------------------
(* Python strings.  The operators over the characters of a string split *)
(* it in halves, which keeps the depth of the evaluation logarithmic.      *)

\* s.ljust(n): pads with spaces on the right, never truncates
RECURSIVE Ljust(_, _)
Ljust(s, n) == IF Len(s) >= n THEN s ELSE Ljust(s \o " ", n)

\* sep.join(seq)
RECURSIVE Join(_, _)
Join(seq, sep) ==
  IF Len(seq) = 0 THEN ""
  ELSE IF Len(seq) = 1 THEN seq[1]
  ELSE LET h == Len(seq) \div 2
       IN Join(SubSeq(seq, 1, h), sep) \o sep \o Join(SubSeq(seq, h + 1, Len(seq)), sep)

\* s.split(c) for a one-character separator c
RECURSIVE Split(_, _)
Split(s, c) ==
  IF Len(s) = 0 THEN <<"">>
  ELSE IF Len(s) = 1 THEN (IF s = c THEN <<"", "">> ELSE <<s>>)
  ELSE LET h == Len(s) \div 2
           a == Split(SubSeq(s, 1, h), c)
           b == Split(SubSeq(s, h + 1, Len(s)), c)
       IN SubSeq(a, 1, Len(a) - 1) \o <<a[Len(a)] \o b[1]>> \o Tail(b)

\* s.replace(c, r) for a one-character c
RECURSIVE Replace(_, _, _)
Replace(s, c, r) ==
  IF Len(s) = 0 THEN ""
  ELSE IF Len(s) = 1 THEN (IF s = c THEN r ELSE s)
  ELSE LET h == Len(s) \div 2
       IN Replace(SubSeq(s, 1, h), c, r) \o Replace(SubSeq(s, h + 1, Len(s)), c, r)

\* c in s, for a one-character c
Contains(s, c) == \E i \in 1..Len(s) : SubSeq(s, i, i) = c

\* s holds ASCII only
IsAscii(s) == ~Contains(s, "~") /\ ~Contains(s, "{") /\ ~Contains(s, "}")

\* text.encode('utf-8'): U+00E9 becomes the bytes 0xC3 0xA9
Utf8Encode(s) == Replace(s, "~", "{}")

\* the bytes are well-formed UTF-8: a lead byte 0xC3 is followed by a
\* continuation byte, and no continuation byte stands alone
Utf8Valid(b) ==
  \A i \in 1..Len(b) :
    /\ SubSeq(b, i, i) = "{" => (i < Len(b) /\ SubSeq(b, i + 1, i + 1) = "}")
    /\ SubSeq(b, i, i) = "}" => (i > 1 /\ SubSeq(b, i - 1, i - 1) = "{")

\* bytes.decode('utf-8') of well-formed bytes; the halves never part a pair
RECURSIVE Utf8Decode(_)
Utf8Decode(b) ==
  IF Len(b) <= 2 THEN (IF b = "{}" THEN "~" ELSE b)
  ELSE LET h == Len(b) \div 2
           k == IF SubSeq(b, h, h) = "{" THEN h + 1 ELSE h
       IN Utf8Decode(SubSeq(b, 1, k)) \o Utf8Decode(SubSeq(b, k + 1, Len(b)))

\* the octal digits of n >= 0
RECURSIVE OctDigits(_)
OctDigits(n) == IF n < 8 THEN ToString(n) ELSE OctDigits(n \div 8) \o ToString(n % 8)

\* oct(n): '0644' and '0' under Python 2, '0o644' and '0o0' under Python 3
Oct(n, v) ==
  IF v = 2 THEN (IF n = 0 THEN "0" ELSE "0" \o OctDigits(n))
  ELSE "0o" \o OctDigits(n)

\* s.replace('0o', '0')
RECURSIVE Replace0o(_)
Replace0o(s) ==
  IF Len(s) = 0 THEN ""
  ELSE IF Len(s) >= 2 /\ SubSeq(s, 1, 2) = "0o" THEN "0" \o Replace0o(SubSeq(s, 3, Len(s)))
  ELSE Head(s) \o Replace0o(Tail(s))

-----------------------------------------------------------------------------
(* Python objects *)

None == [t |-> "none", v |-> "", items |-> <<>>]
Bytes(s) == [t |-> "bytes", v |-> s, items |-> <<>>]
Text(s) == [t |-> "text", v |-> s, items |-> <<>>]
List(q) == [t |-> "list", v |-> "", items |-> q]
File(s) == [t |-> "file", v |-> s, items |-> <<>>]

\* a str literal or a flag value: bytes under Python 2, text under Python 3
Native(s, v) == IF v = 2 THEN Bytes(s) ELSE Text(s)

\* bool(x)
Truthy(x) ==
  CASE x.t = "none" -> FALSE
    [] x.t = "list" -> Len(x.items) > 0
    [] x.t = "file" -> TRUE
    [] OTHER -> Len(x.v) > 0

\* the result of an evaluation: an exception name, or "" and a value
Ok(x) == [err |-> "", val |-> x]
Raise(e) == [err |-> e, val |-> None]

\* a list of str literals
StrList(q, v) == List([i \in 1..Len(q) |-> Native(q[i], v)])

\* the least element of a set of numbers
Least(S) == CHOOSE i \in S : \A j \in S : i <= j

\* sep.join(q) for a str literal sep and a sequence q of objects.  Python 3
\* joins str elements only.  Python 2 joins str elements into a str; from
\* the first unicode element on it joins all of them again into a unicode,
\* decoding the str elements as ASCII; the first element in its way decides
\* the exception.
PyJoin(sep, q, v) ==
  LET joined == Join([i \in 1..Len(q) |-> q[i].v], sep)
      strange == { i \in 1..Len(q) : q[i].t \notin {"bytes", "text"} }
      unicodes == { i \in 1..Len(q) : q[i].t = "text" }
      undecodable == { i \in 1..Len(q) : q[i].t = "bytes" /\ ~IsAscii(q[i].v) }
  IN IF v = 3
     THEN (IF \E i \in 1..Len(q) : q[i].t # "text" THEN Raise("TypeError")
           ELSE Ok(Text(joined)))
     ELSE IF unicodes = {}
     THEN (IF strange # {} THEN Raise("TypeError") ELSE Ok(Bytes(joined)))
     ELSE IF strange # {} /\ Least(strange) < Least(unicodes) THEN Raise("TypeError")
     ELSE IF strange \cup undecodable = {} THEN Ok(Text(joined))
     ELSE IF Least(strange \cup undecodable) \in strange THEN Raise("TypeError")
     ELSE Raise("UnicodeDecodeError")

\* x.encode('utf-8').  Python 2 first decodes a str as ASCII.
PyEncodeUtf8(x, v) ==
  CASE x.t = "text" -> Ok(Bytes(Utf8Encode(x.v)))
    [] x.t = "bytes" ->
         IF v = 2
         THEN (IF IsAscii(x.v) THEN Ok(Bytes(x.v)) ELSE Raise("UnicodeDecodeError"))
         ELSE Raise("AttributeError")
    [] OTHER -> Raise("AttributeError")

\* x.decode('utf-8').  Python 2 first encodes a unicode as ASCII; a Python 3
\* str has no decode.
PyDecodeUtf8(x, v) ==
  CASE x.t = "bytes" ->
         IF Utf8Valid(x.v) THEN Ok(Text(Utf8Decode(x.v))) ELSE Raise("UnicodeDecodeError")
    [] x.t = "text" ->
         IF v = 2
         THEN (IF IsAscii(x.v) THEN Ok(Text(x.v)) ELSE Raise("UnicodeEncodeError"))
         ELSE Raise("AttributeError")
    [] OTHER -> Raise("AttributeError")

-----------------------------------------------------------------------------
(* The AR container writer *)

\* size of the chunks AddArFileEntry copies the content in
COPY_CHUNK_SIZE == 32768

\* the magic AR header CreateDeb writes first
ArMagic == "!<arch>\n"

\* len(x) for a string or a list; None and a file object have none
HasLen(x) == x.t \in {"bytes", "text", "list"}
PyLen(x) == IF x.t = "list" THEN Len(x.items) ELSE Len(x.v)

\* io.BytesIO(content): a buffer of the bytes, an empty one for None; a text,
\* a list or a file object is refused
BytesIO(content) ==
  CASE content.t = "bytes" -> Ok(File(content.v))
    [] content.t = "none" -> Ok(File(""))
    [] OTHER -> Raise("TypeError")

\* a ConvertToFileLike that keeps the length it is given and never defaults
\* it to len(content): the declared sizes (C7) must tell it apart
ConvertToFileLike_KeepLen(content, content_len) ==
  [err |-> BytesIO(content).err, len |-> content_len,
   content |-> IF BytesIO(content).err = "" THEN BytesIO(content).val ELSE content]

\* ConvertToFileLike(content, content_len, BytesIO): the length defaults to
\* len(content), then the content is converted
ConvertToFileLike(content, content_len) ==
  IF content_len < 0 /\ ~HasLen(content)
  THEN [err |-> "TypeError", len |-> content_len, content |-> content]
  ELSE [err |-> BytesIO(content).err,
        len |-> IF content_len < 0 THEN PyLen(content) ELSE content_len,
        content |-> IF BytesIO(content).err = "" THEN BytesIO(content).val ELSE content]

\* isinstance(content, (str, bytes))
IsStrOrBytes(content, v) == content.t = "bytes" \/ (v = 3 /\ content.t = "text")

\* '\x60\x0a', the end of a file entry.  The byte 0x60 (a backquote) cannot
\* appear in a TLA+ string and is written "'".
ArEndOfEntry == "'\n"

\* a header whose size field is 9 wide: the header width (C5) must tell it
\* apart
ArHeader_NarrowSize(filename, content_len, timestamp, owner_id, group_id, mode, v) ==
  Ljust(filename \o "/", 16)
    \o Ljust(ToString(timestamp), 12)
    \o Ljust(ToString(owner_id), 6)
    \o Ljust(ToString(group_id), 6)
    \o Ljust(Replace0o(Oct(mode, v)), 8)
    \o Ljust(ToString(content_len), 9)
    \o ArEndOfEntry

\* the seven header fields, joined
ArHeader(filename, content_len, timestamp, owner_id, group_id, mode, v) ==
  Ljust(filename \o "/", 16)
    \o Ljust(ToString(timestamp), 12)
    \o Ljust(ToString(owner_id), 6)
    \o Ljust(ToString(group_id), 6)
    \o Ljust(Replace0o(Oct(mode, v)), 8)
    \o Ljust(ToString(content_len), 10)
    \o ArEndOfEntry

\* the copy loop: reads chunks of COPY_CHUNK_SIZE bytes until an empty read;
\* the result is the bytes written
RECURSIVE CopyChunks(_, _)
CopyChunks(rest, written) ==
  LET chunk == SubSeq(rest, 1, IF Len(rest) < COPY_CHUNK_SIZE THEN Len(rest) ELSE COPY_CHUNK_SIZE)
  IN IF Len(chunk) = 0 THEN written
     ELSE CopyChunks(SubSeq(rest, Len(chunk) + 1, Len(rest)), written \o chunk)

\* a writer that pads after every payload: the alignment (C6) must tell it
\* apart
ArPadding_Always(size) == "\n"

\* the 2-byte alignment padding after a payload of size bytes
ArPadding(size) == IF size % 2 # 0 THEN "\n" ELSE ""

\* AddArFileEntry(fileobj, filename, content, content_len, timestamp,
\* owner_id, group_id, mode): what the call writes to fileobj (header, then
\* payload, then pad) and the exception that ends it ("" when it returns)
AddArFileEntry(filename, content, content_len, timestamp, owner_id, group_id, mode, v) ==
  LET conv == IF IsStrOrBytes(content, v)
              THEN ConvertToFileLike(content, content_len)
              ELSE [err |-> "", len |-> content_len, content |-> content]
      header == ArHeader(filename, conv.len, timestamp, owner_id, group_id, mode, v)
      payload == CopyChunks(conv.content.v, "")
  IN IF conv.err # ""
     THEN [err |-> conv.err, header |-> "", payload |-> "", pad |-> ""]
     ELSE IF ~IsAscii(filename)
     THEN [err |-> IF v = 2 THEN "UnicodeDecodeError" ELSE "UnicodeEncodeError",
           header |-> "", payload |-> "", pad |-> ""]
     ELSE IF conv.content.t # "file"
     THEN [err |-> "AttributeError", header |-> header, payload |-> "", pad |-> ""]
     ELSE [err |-> "", header |-> header, payload |-> payload,
           pad |-> ArPadding(Len(payload))]

\* the bytes a call appended to the stream
ArWritten(r) == r.header \o r.payload \o r.pad

\* the log entry of a call
ArLogEntry(filename, content, content_len, timestamp, owner_id, group_id, mode, r) ==
  [filename |-> filename, content |-> content, content_len |-> content_len,
   timestamp |-> timestamp, owner_id |-> owner_id, group_id |-> group_id,
   mode |-> mode, err |-> r.err, header |-> r.header, payload |-> r.payload,
   pad |-> r.pad]

-----------------------------------------------------------------------------
(* The control file *)

\* one row of DEBIAN_FIELDS: (name, mandatory, wrap[, default]); dflt is
\* "none" when the row has no fourth element, "list" for [], else "str"
Field(name, mandatory, wrap, dflt, dv) ==
  [name |-> name, mandatory |-> mandatory, wrap |-> wrap, dflt |-> dflt, dv |-> dv]

DEBIAN_FIELDS == <<
  Field("Package", TRUE, FALSE, "none", ""),
  Field("Version", TRUE, FALSE, "none", ""),
  Field("Section", FALSE, FALSE, "str", "contrib/devel"),
  Field("Priority", FALSE, FALSE, "str", "optional"),
  Field("Architecture", FALSE, FALSE, "str", "all"),
  Field("Depends", FALSE, TRUE, "list", ""),
  Field("Recommends", FALSE, TRUE, "list", ""),
  Field("Suggests", FALSE, TRUE, "list", ""),
  Field("Enhances", FALSE, TRUE, "list", ""),
  Field("Conflicts", FALSE, TRUE, "list", ""),
  Field("Pre-Depends", FALSE, TRUE, "list", ""),
  Field("Installed-Size", FALSE, FALSE, "none", ""),
  Field("Maintainer", TRUE, FALSE, "none", ""),
  Field("Description", TRUE, TRUE, "none", ""),
  Field("Homepage", FALSE, FALSE, "none", ""),
  Field("Built-Using", FALSE, FALSE, "str", "Bazel"),
  Field("Distribution", FALSE, FALSE, "str", "unstable"),
  Field("Urgency", FALSE, FALSE, "str", "medium") >>

UpperCase == "ABCDEFGHIJKLMNOPQRSTUVWXYZ"
LowerCase == "abcdefghijklmnopqrstuvwxyz"

\* c.lower() for one character
RECURSIVE LowerFrom(_, _)
LowerFrom(c, i) ==
  IF i > Len(UpperCase) THEN c
  ELSE IF SubSeq(UpperCase, i, i) = c THEN SubSeq(LowerCase, i, i)
  ELSE LowerFrom(c, i + 1)

\* key = fieldname[0].lower() + fieldname[1:].replace('-', '')
FieldKey(fieldname) ==
  LowerFrom(Head(fieldname), 1) \o Replace(Tail(fieldname), "-", "")

\* the width textwrap.fill wraps to when none is given
TextWidth == 70

\* chunk.strip() == ''
IsBlank(s) == \A i \in 1..Len(s) : SubSeq(s, i, i) = " "

\* TextWrapper._split with break_on_hyphens=False: the maximal runs of
\* whitespace and of non-whitespace, in order
RECURSIVE Chunks(_)
Chunks(s) ==
  IF Len(s) = 0 THEN <<>>
  ELSE IF Len(s) = 1 THEN <<s>>
  ELSE LET h == Len(s) \div 2
           a == Chunks(SubSeq(s, 1, h))
           b == Chunks(SubSeq(s, h + 1, Len(s)))
       IN IF (Head(a[Len(a)]) = " ") = (Head(b[1]) = " ")
          THEN SubSeq(a, 1, Len(a) - 1) \o <<a[Len(a)] \o b[1]>> \o Tail(b)
          ELSE a \o b

\* the total length of the chunks
RECURSIVE SumLen(_)
SumLen(chunks) ==
  IF Len(chunks) = 0 THEN 0
  ELSE IF Len(chunks) = 1 THEN Len(chunks[1])
  ELSE SumLen(SubSeq(chunks, 1, Len(chunks) \div 2))
         + SumLen(SubSeq(chunks, Len(chunks) \div 2 + 1, Len(chunks)))

\* how many of the leading chunks fit on an empty line: the inner loop stops
\* at the first chunk that would pass the width
FitCount(chunks) ==
  Cardinality({ k \in 1..Len(chunks) : SumLen(SubSeq(chunks, 1, k)) <= TextWidth })

\* TextWrapper._wrap_chunks with drop_whitespace=True, break_long_words=False;
\* have_lines says whether a line was produced already.  WrapLine makes one
\* line of chunks, the first k of which fit: a chunk wider than a line gets a
\* line of its own, and the whitespace that ends a line is dropped.
RECURSIVE WrapChunks(_, _)
WrapLine(chunks, k, have_lines) ==
  LET long == k = 0 /\ Len(chunks) > 0 /\ Len(chunks[1]) > TextWidth
      n == IF long THEN 1 ELSE k
      m == IF n > 0 /\ IsBlank(chunks[n]) THEN n - 1 ELSE n
  IN IF m > 0
     THEN <<Join(SubSeq(chunks, 1, m), "")>>
            \o WrapChunks(SubSeq(chunks, n + 1, Len(chunks)), TRUE)
     ELSE WrapChunks(SubSeq(chunks, n + 1, Len(chunks)), have_lines)

WrapFrom(chunks, have_lines) ==
  Only({ WrapLine(chunks, k, have_lines) : k \in {FitCount(chunks)} })

WrapChunks(chunks0, have_lines) ==
  IF Len(chunks0) = 0 THEN <<>>
  ELSE WrapFrom(IF have_lines /\ IsBlank(chunks0[1]) THEN Tail(chunks0) ELSE chunks0,
                have_lines)

\* n spaces
Spaces(n) == Ljust("", n)

\* str.expandtabs(): every tab becomes the spaces up to the next column that
\* is a multiple of 8, the column starting again after "\n" and "\r".  The
\* text after a tab starts on such a column, so each part before a tab is
\* padded by its own length.
ExpandTabsPart(part) == part \o Spaces(8 - (Len(part) % 8))

ExpandTabsLine(line) ==
  Only({ Join([i \in 1..Len(parts) |->
                 IF i < Len(parts) THEN ExpandTabsPart(parts[i]) ELSE parts[i]], "") :
           parts \in {Split(line, "\t")} })

ExpandTabsLines(s) ==
  Only({ Join([i \in 1..Len(lines) |-> ExpandTabsLine(lines[i])], "\r") :
           lines \in {Split(s, "\r")} })

ExpandTabs(s) ==
  Only({ Join([i \in 1..Len(lines) |-> ExpandTabsLines(lines[i])], "\n") :
           lines \in {Split(s, "\n")} })

\* TextWrapper._munge_whitespace: the tabs expanded, then every whitespace
\* character replaced by a space
MungeWhitespace(text) ==
  Replace(Replace(Replace(Replace(ExpandTabs(text), "\t", " "), "\n", " "), "\f", " "),
          "\r", " ")

\* textwrap.fill(text, break_on_hyphens=False, break_long_words=False)
TextwrapFill(text) ==
  Only({ Join(WrapChunks(chunks, FALSE), "\n") : chunks \in {Chunks(MungeWhitespace(text))} })

\* value = ', '.join(value) when value is a list
FieldValue(value, v) ==
  IF value.t = "list" THEN PyJoin(", ", value.items, v) ELSE Ok(value)

\* the type of name + ': ' + value: name and ': ' are native strs; Python 2
\* promotes a str joined to a unicode, Python 3 refuses to mix the two
FieldSumType(val, v) ==
  IF val.t = Native("", v).t THEN val.t
  ELSE IF v = 2 /\ val.t = "text" THEN "text"
  ELSE "error"

\* result, before it is decoded
FieldBody(name, val, wrap) ==
  IF wrap
  THEN TextwrapFill(name \o ": " \o Join(Split(val.v, "\n"), " "))
  ELSE name \o ": " \o val.v

\* result.decode('utf-8').replace('\n', '\n ') + '\n'
FieldDecoded(decoded) ==
  IF decoded.err # "" THEN decoded
  ELSE Ok(Text(Replace(decoded.val.v, "\n", "\n ") \o "\n"))

\* the field of a value that is not a list
FieldOfValue(name, val, wrap, v) ==
  IF val.t \notin {"bytes", "text"}
  THEN Raise(IF wrap THEN "AttributeError" ELSE "TypeError")
  ELSE IF FieldSumType(val, v) = "error" THEN Raise("TypeError")
  ELSE FieldDecoded(PyDecodeUtf8([t |-> FieldSumType(val, v),
                                  v |-> FieldBody(name, val, wrap),
                                  items |-> <<>>], v))

\* MakeDebianControlField(name, value, wrap): the rendered field, a text
MakeDebianControlField(name, value, wrap, v) ==
  Only({ IF val.err # "" THEN val ELSE FieldOfValue(name, val.val, wrap, v) :
           val \in {FieldValue(value, v)} })

\* a loop that skips a mandatory field the metadata lacks instead of looking
\* it up: the failure on a missing field (C1) must tell it apart
FieldIsRendered_IfSupplied(f, kwargs) ==
  FieldKey(f.name) \in DOMAIN kwargs /\ Truthy(kwargs[FieldKey(f.name)])

\* a loop that renders every field the metadata holds that is not None, empty
\* or not: the fields of the control file (C8) must tell it apart
FieldIsRendered_IfNotNone(f, kwargs) ==
  f.mandatory
    \/ (FieldKey(f.name) \in DOMAIN kwargs /\ kwargs[FieldKey(f.name)].t # "none")

\* values[1] or (key in kwargs and kwargs[key])
FieldIsRendered(f, kwargs) ==
  f.mandatory \/ (FieldKey(f.name) \in DOMAIN kwargs /\ Truthy(kwargs[FieldKey(f.name)]))

\* the loop over DEBIAN_FIELDS from row i on, acc being the control file so
\* far; ControlFileAdd appends the field r of row i, or raises with it
RECURSIVE ControlFileFrom(_, _, _, _)
RECURSIVE ControlFileAdd(_, _, _, _, _)
ControlFileFrom(i, acc, kwargs, v) ==
  IF i > Len(DEBIAN_FIELDS) THEN Ok(Text(acc))
  ELSE IF ~FieldIsRendered(DEBIAN_FIELDS[i], kwargs)
  THEN ControlFileFrom(i + 1, acc, kwargs, v)
  ELSE IF FieldKey(DEBIAN_FIELDS[i].name) \notin DOMAIN kwargs THEN Raise("KeyError")
  ELSE Only({ ControlFileAdd(i, acc, kwargs, v, r) :
                r \in {MakeDebianControlField(DEBIAN_FIELDS[i].name,
                                              kwargs[FieldKey(DEBIAN_FIELDS[i].name)],
                                              DEBIAN_FIELDS[i].wrap, v)} })

ControlFileAdd(i, acc, kwargs, v, r) ==
  IF r.err # "" THEN r ELSE ControlFileFrom(i + 1, acc \o r.val.v, kwargs, v)

ControlFile(kwargs, v) == ControlFileFrom(1, "", kwargs, v)

-----------------------------------------------------------------------------
(* The control tarball *)

\* TarFile.addfile(tarinfo, fileobj): copies tarinfo.size bytes of fileobj into
\* the archive and fails when fileobj holds fewer.  An entry keeps, beside
\* what the archive holds (name, size, mode, data), the bytes handed in.
TarAddFile(entries, name, size, mode, handed, v) ==
  IF Len(handed) < size
  THEN [err |-> IF v = 2 THEN "IOError" ELSE "OSError", entries |-> entries]
  ELSE [err |-> "",
        entries |-> Append(entries, [name |-> name, size |-> size, mode |-> mode,
                                     data |-> SubSeq(handed, 1, size),
                                     handed |-> handed])]

\* the loop over extrafiles.items(), in the order the dict yields them:
\* tarinfo.size = len(data) first, which fails for a data without a length,
\* then the file object holding data.encode('utf-8')
RECURSIVE AddExtraFiles(_, _, _)
RECURSIVE AddExtraFile(_, _, _, _)
AddExtraFiles(extras, entries, v) ==
  IF Len(extras) = 0 THEN [err |-> "", entries |-> entries]
  ELSE IF ~HasLen(extras[1].data) THEN [err |-> "TypeError", entries |-> entries]
  ELSE Only({ AddExtraFile(extras, entries, v, encoded) :
                encoded \in {PyEncodeUtf8(extras[1].data, v)} })

AddExtraFile(extras, entries, v, encoded) ==
  IF encoded.err # "" THEN [err |-> encoded.err, entries |-> entries]
  ELSE IF Len(encoded.val.v) < PyLen(extras[1].data)
  THEN TarAddFile(entries, extras[1].name, PyLen(extras[1].data), extras[1].mode,
                  encoded.val.v, v)
  ELSE AddExtraFiles(Tail(extras),
                     TarAddFile(entries, extras[1].name, PyLen(extras[1].data),
                                extras[1].mode, encoded.val.v, v).entries, v)

\* tar.getvalue(): gzip and tarfile are libraries, and the compressed bytes
\* are represented by a serialisation that keeps what a reader of the
\* archive recovers: the gzip mtime and each entry's name, mode, size, data
RECURSIVE TarBytes(_)
TarBytes(entries) ==
  IF Len(entries) = 0 THEN ""
  ELSE entries[1].name \o " " \o OctDigits(entries[1].mode) \o " "
         \o ToString(entries[1].size) \o ":" \o entries[1].data \o ";"
         \o TarBytes(Tail(entries))

GzipTarBytes(entries) == "gzip(mtime=0;" \o TarBytes(entries) \o ")"

\* the tarball of a control file: the control entry, whose size is the
\* length of the encoded control file, then the extra files
ControlTarball(controlfile, extras, v) ==
  [err |-> extras.err, controlfile |-> controlfile, entries |-> extras.entries,
   bytes |-> IF extras.err = "" THEN GzipTarBytes(extras.entries) ELSE ""]

ControlEntry(encoded, v) ==
  Only({ TarAddFile(<<>>, "control", Len(e), 420, e, v) : e \in {encoded} })

\* CreateDebControl(extrafiles, **kwargs): the control file, the entries of
\* the tarball and its bytes, or the exception raised
CreateDebControlOf(cf, extrafiles, v) ==
  IF cf.err # ""
  THEN [err |-> cf.err, controlfile |-> "", entries |-> <<>>, bytes |-> ""]
  ELSE Only({ ControlTarball(cf.val.v, extras, v) :
                extras \in {AddExtraFiles(extrafiles,
                                          ControlEntry(Utf8Encode(cf.val.v), v).entries, v)} })

CreateDebControl(extrafiles, kwargs, v) ==
  Only({ CreateDebControlOf(cf, extrafiles, v) : cf \in {ControlFile(kwargs, v)} })

-----------------------------------------------------------------------------
(* The package *)

\* the elements sep.join(x) iterates over: the items of a list, the
\* characters of a str or unicode, the integers of a Python 3 bytes (x is a
\* list or a string)
JoinElements(x, v) ==
  CASE x.t = "list" -> x.items
    [] x.t \in {"bytes", "text"} ->
         [i \in 1..Len(x.v) |->
            IF v = 3 /\ x.t = "bytes" THEN None ELSE [x EXCEPT !.v = SubSeq(x.v, i, i)]]

\* '\n'.join(conffiles) + '\n'
ConffilesDataOf(joined) ==
  IF joined.err # "" THEN joined ELSE Ok([joined.val EXCEPT !.v = @ \o "\n"])

ConffilesData(conffiles, v) ==
  Only({ ConffilesDataOf(joined) : joined \in {PyJoin("\n", JoinElements(conffiles, v), v)} })

\* the exception CreateDeb raises while it builds extrafiles, "" for none
ExtraFilesError(c, v) ==
  IF Truthy(c.conffiles) THEN ConffilesData(c.conffiles, v).err ELSE ""

\* the extrafiles dict CreateDeb builds, in insertion order
ExtraFiles(c, v) ==
  LET script(name, x) ==
        IF Truthy(x) THEN <<[name |-> name, data |-> x, mode |-> 493]>> ELSE <<>>
  IN script("preinst", c.preinst) \o script("postinst", c.postinst)
       \o script("prerm", c.prerm) \o script("postrm", c.postrm)
       \o (IF Truthy(c.conffiles)
           THEN <<[name |-> "conffiles",
                   data |-> ConffilesData(c.conffiles, v).val,
                   mode |-> 420]>>
           ELSE <<>>)

\* the orders extrafiles.items() can yield: insertion order under Python 3,
\* an order the dict's hashing decides under Python 2
ItemsOrders(extras, v) ==
  IF v = 3 THEN {extras}
  ELSE { [i \in 1..Len(extras) |-> extras[p[i]]] :
           p \in { q \in [1..Len(extras) -> 1..Len(extras)] :
                     \A i, j \in 1..Len(extras) : i # j => q[i] # q[j] } }

\* os.path.basename(path)
Basename(path) == Split(path, "/")[Len(Split(path, "/"))]

\* the suffix of the data member, from the name of the data file
DataExt(path) ==
  LET parts == Split(Basename(path), ".")
      ext == SubSeq(parts, IF Len(parts) < 2 THEN 1 ELSE Len(parts) - 1, Len(parts))
  IN IF Len(ext) < 2 THEN "tar"
     ELSE IF ext[2] = "tgz" THEN "tar.gz"
     ELSE IF ext[2] = "tar.bzip2" THEN "tar.bz2"
     ELSE IF Join(ext, ".") \in {"tar.bz2", "tar.gz", "tar.xz", "tar.lzma"}
     THEN Join(ext, ".")
     ELSE "tar"

-----------------------------------------------------------------------------
(* The changes file *)

\* the size of the reads of GetChecksumsFromFile
HASH_READ_SIZE == 1048576

\* hashlib's hexdigest of the bytes fed to a hash: represented by the name of
\* the algorithm and the bytes themselves, with the space, the newline and
\* the colon written "_", "$" and "=", so that it is one word as a hexdigest is
HexDigest(algo, fed) ==
  algo \o "-" \o Replace(Replace(Replace(fed, " ", "_"), "\n", "$"), ":", "=")

\* the read loop of GetChecksumsFromFile: every hash is fed every chunk read
RECURSIVE FeedChunks(_, _)
FeedChunks(rest, fed) ==
  LET buf == SubSeq(rest, 1, IF Len(rest) < HASH_READ_SIZE THEN Len(rest) ELSE HASH_READ_SIZE)
  IN IF Len(buf) = 0 THEN fed
     ELSE FeedChunks(SubSeq(rest, Len(buf) + 1, Len(rest)), fed \o buf)

\* a GetChecksumsFromFile that stops after its first read of one byte: the
\* digests of the changes file (C9) must tell it apart
GetChecksumsFromFile_FirstByte(content, algos) ==
  [k \in (IF algos = {} THEN {"md5"} ELSE algos) |-> HexDigest(k, SubSeq(content, 1, 1))]

\* GetChecksumsFromFile(filename, hash_fns), for a file holding content
GetChecksumsFromFile(content, algos) ==
  [k \in (IF algos = {} THEN {"md5"} ELSE algos) |-> HexDigest(k, FeedChunks(content, ""))]

\* a number in two digits
TwoDigits(n) == IF n < 10 THEN "0" \o ToString(n) ELSE ToString(n)

\* the civil date of the day days after 1970-01-01 (negative: before), in
\* the Gregorian calendar
CivilFromDays(days) ==
  LET z == days + 719468
      era == z \div 146097
      doe == z - era * 146097
      yoe == (doe - doe \div 1460 + doe \div 36524 - doe \div 146096) \div 365
      doy == doe - (365 * yoe + yoe \div 4 - yoe \div 100)
      mp == (5 * doy + 2) \div 153
      m == IF mp < 10 THEN mp + 3 ELSE mp - 9
  IN [year |-> yoe + era * 400 + (IF m <= 2 THEN 1 ELSE 0),
      month |-> m,
      day |-> doy - (153 * mp + 2) \div 5 + 1]

DayNames == <<"Sun", "Mon", "Tue", "Wed", "Thu", "Fri", "Sat">>
MonthNames ==
  <<"Jan", "Feb", "Mar", "Apr", "May", "Jun", "Jul", "Aug", "Sep", "Oct", "Nov", "Dec">>

\* time.ctime(timestamp): the local time, utcoffset seconds east of UTC at
\* that instant, as 'Thu Jan  1 00:00:00 1970' (the day in two columns)
CTime(timestamp, utcoffset) ==
  LET t == timestamp + utcoffset
      days == t \div 86400
      secs == t % 86400
      date == CivilFromDays(days)
  IN DayNames[((days + 4) % 7) + 1] \o " " \o MonthNames[date.month] \o " "
       \o (IF date.day < 10 THEN " " ELSE "") \o ToString(date.day) \o " "
       \o TwoDigits(secs \div 3600) \o ":" \o TwoDigits((secs % 3600) \div 60) \o ":"
       \o TwoDigits(secs % 60) \o " " \o ToString(date.year)

\* the timestamp of CreateChanges when the caller gives none
DefaultTimestamp == 0

\* the (name, value) pairs CreateChanges renders, in order
ChangesFieldsOf(checksums, debsize, deb_basename, a, date) ==
     << <<"Format", "1.8">>,
        <<"Date", date>>,
        <<"Source", a.package>>,
        <<"Binary", a.package>>,
        <<"Architecture", a.architecture>>,
        <<"Version", a.version>>,
        <<"Distribution", a.distribution>>,
        <<"Urgency", a.urgency>>,
        <<"Maintainer", a.maintainer>>,
        <<"Changed-By", a.maintainer>>,
        <<"Description", "\n" \o a.package \o " - " \o a.short_description>>,
        <<"Changes", "\n" \o a.package \o " (" \o a.version \o ") " \o a.distribution
                       \o "; urgency=" \o a.urgency
                       \o "\nChanges are tracked in revision control.">>,
        <<"Files", "\n" \o Join(<<checksums["md5"], debsize, a.section, a.priority,
                                 deb_basename>>, " ")>>,
        <<"Checksums-Sha1", "\n" \o Join(<<checksums["sha1"], debsize, deb_basename>>, " ")>>,
        <<"Checksums-Sha256", "\n" \o Join(<<checksums["sha256"], debsize, deb_basename>>, " ")>> >>

ChangesFields(deb_file, deb_bytes, a, timestamp, utcoffset) ==
  Only({ ChangesFieldsOf(checksums, ToString(Len(deb_bytes)), Basename(deb_file), a,
                         CTime(timestamp, utcoffset)) :
           checksums \in {GetChecksumsFromFile(deb_bytes, {"md5", "sha1", "sha256"})} })

\* ''.join(MakeDebianControlField(*x) for x in fields)
RECURSIVE RenderFields(_, _, _)
RenderFields(fields, acc, v) ==
  IF Len(fields) = 0 THEN Ok(Text(acc))
  ELSE Only({ IF r.err # "" THEN r ELSE RenderFields(Tail(fields), acc \o r.val.v, v) :
                r \in {MakeDebianControlField(fields[1][1], Native(fields[1][2], v),
                                              FALSE, v)} })

\* CreateChanges(output, deb_file, ..., timestamp): the state of the changes
\* path after the call and the exception raised, in a process whose local
\* time is utcoffset seconds east of UTC.  A text-mode file of Python 3 refuses
\* the encoded bytes after open() has created the file.
ChangesWritten(before, rendered, v) ==
  IF rendered.err # ""
  THEN [err |-> rendered.err, file |-> before]
  ELSE IF v = 3
  THEN [err |-> "TypeError", file |-> [exists |-> TRUE, bytes |-> ""]]
  ELSE [err |-> "", file |-> [exists |-> TRUE, bytes |-> Utf8Encode(rendered.val.v)]]

CreateChanges(before, deb_file, deb_bytes, a, timestamp, utcoffset, v) ==
  Only({ ChangesWritten(before, rendered, v) :
           rendered \in {RenderFields(ChangesFields(deb_file, deb_bytes, a, timestamp,
                                                    utcoffset), "", v)} })

-----------------------------------------------------------------------------
(* The flags and main *)

\* x.strip(): the whitespace at both ends removed.  The vertical tab, which
\* strip removes too, has no escape in a TLA+ string and is left out.
Whitespace == {" ", "\t", "\n", "\r", "\f"}

Strip(s) ==
  LET keep == { i \in 1..Len(s) : SubSeq(s, i, i) \notin Whitespace }
      lo == CHOOSE i \in keep : \A j \in keep : i <= j
      hi == CHOOSE i \in keep : \A j \in keep : i >= j
  IN IF keep = {} THEN "" ELSE SubSeq(s, lo, hi)

\* the newlines of a text-mode read under Python 3: "\r\n" and "\r" become
\* "\n"
UniversalNewlines(s) ==
  Join([i \in 1..Len(s) |->
          IF SubSeq(s, i, i) # "\r" THEN SubSeq(s, i, i)
          ELSE IF i < Len(s) /\ SubSeq(s, i + 1, i + 1) = "\n" THEN ""
          ELSE "\n"], "")

\* the text of the bytes b in the encoding of the locale
LocaleDecode(b, encoding) ==
  IF encoding = "ascii"
  THEN (IF IsAscii(b) THEN Ok(Text(b)) ELSE Raise("UnicodeDecodeError"))
  ELSE (IF Utf8Valid(b) THEN Ok(Text(Utf8Decode(b))) ELSE Raise("UnicodeDecodeError"))

\* the end of ReadFile under Python 3
ReadFileText(decoded) ==
  IF decoded.err # "" THEN decoded ELSE Ok(Text(UniversalNewlines(decoded.val.v)))

\* open(name, 'r').read() on the files of files: name -> bytes.  Python 2
\* returns the bytes; Python 3 decodes them in the encoding of the locale
\* and translates the newlines.
ReadFile(name, files, encoding, v) ==
  IF name \notin DOMAIN files
  THEN Raise(IF v = 2 THEN "IOError" ELSE "FileNotFoundError")
  ELSE IF v = 2 THEN Ok(Bytes(files[name]))
  ELSE Only({ ReadFileText(decoded) : decoded \in {LocaleDecode(files[name], encoding)} })

\* the end of GetFlagValue: the value stripped when strip is set
GetFlagValueOf(read, strip) ==
  IF read.err # "" \/ ~strip THEN read
  ELSE Ok([read.val EXCEPT !.v = Strip(@)])

\* flagvalue[0] == '@' for a str, bytes or unicode: the first element of a
\* Python 3 bytes is an integer, never equal to '@'
StartsWithAt(flagvalue, v) ==
  /\ SubSeq(flagvalue.v, 1, 1) = "@"
  /\ ~(v = 3 /\ flagvalue.t = "bytes")

\* GetFlagValue(flagvalue, strip): a value starting with '@' is replaced by
\* the content of the file it names; None and '' are returned as they are.
\* A file object cannot be indexed; a list is indexed, cannot name a file
\* and has no strip.
GetFlagValue(flagvalue, strip, files, encoding, v) ==
  IF ~Truthy(flagvalue) THEN Ok(flagvalue)
  ELSE IF flagvalue.t = "file" THEN Raise("TypeError")
  ELSE IF flagvalue.t = "list"
  THEN (IF flagvalue.items[1].t \in {"bytes", "text"}
             /\ flagvalue.items[1].v = "@"
             /\ ~(v = 3 /\ flagvalue.items[1].t = "bytes")
        THEN Raise("TypeError")
        ELSE IF strip THEN Raise("AttributeError")
        ELSE Ok(flagvalue))
  ELSE IF StartsWithAt(flagvalue, v)
  THEN Only({ GetFlagValueOf(read, strip) :
                read \in {ReadFile(SubSeq(flagvalue.v, 2, Len(flagvalue.v)), files,
                                   encoding, v)} })
  ELSE GetFlagValueOf(Ok(flagvalue), strip)

\* the elements the comprehension of GetFlagValues iterates over: the items
\* of a list, the characters of a str or unicode (flagvalues is None, a list
\* or a string)
FlagElements(flagvalues, v) ==
  CASE flagvalues.t = "list" -> flagvalues.items
    [] flagvalues.t \in {"bytes", "text"} ->
         [i \in 1..Len(flagvalues.v) |->
            [flagvalues EXCEPT !.v = SubSeq(flagvalues.v, i, i)]]

\* GetFlagValues(flagvalues): GetFlagValue(f, False) of every element, None
\* for no element
GetFlagValuesOf(results) ==
  IF \E i \in 1..Len(results) : results[i].err # ""
  THEN Raise(results[CHOOSE i \in 1..Len(results) :
                       /\ results[i].err # ""
                       /\ \A j \in 1..(i - 1) : results[j].err = ""].err)
  ELSE Ok(List([i \in 1..Len(results) |-> results[i].val]))

\* The elements of a Python 3 bytes are integers, which GetFlagValue cannot
\* index.
GetFlagValues(flagvalues, files, encoding, v) ==
  IF ~Truthy(flagvalues) THEN Ok(None)
  ELSE IF v = 3 /\ flagvalues.t = "bytes" THEN Raise("TypeError")
  ELSE Only({ GetFlagValuesOf(results) :
                results \in {[i \in 1..Len(FlagElements(flagvalues, v)) |->
                                GetFlagValue(FlagElements(flagvalues, v)[i], FALSE,
                                             files, encoding, v)]} })

\* s.lower()
RECURSIVE Lower(_)
Lower(s) ==
  IF Len(s) = 0 THEN ""
  ELSE IF Len(s) = 1 THEN LowerFrom(s, 1)
  ELSE Lower(SubSeq(s, 1, Len(s) \div 2)) \o Lower(SubSeq(s, Len(s) \div 2 + 1, Len(s)))

\* the flag MakeGflags defines for a row: field[0].replace('-', '_').lower()
FlagName(fieldname) == Lower(Replace(fieldname, "-", "_"))

\* the default MakeGflags gives the flag of a row: field[3], else None
FlagDefault(f, v) ==
  CASE f.dflt = "none" -> None
    [] f.dflt = "list" -> List(<<>>)
    [] OTHER -> Native(f.dv, v)

\* the flags of the scripts and the conffiles, None by default
ScriptFlags == {"preinst", "postinst", "prerm", "postrm", "conffile"}

\* FLAGS when the command line gives no flag
DefaultFlags(v) ==
  [n \in ScriptFlags |-> None]
    @@ [n \in { FlagName(DEBIAN_FIELDS[i].name) : i \in 1..Len(DEBIAN_FIELDS) } |->
          FlagDefault(DEBIAN_FIELDS[CHOOSE i \in 1..Len(DEBIAN_FIELDS) :
                                      FlagName(DEBIAN_FIELDS[i].name) = n], v)]

NoFlags == [n \in {} |-> None]

\* the arguments main gives CreateDeb, from the values GetFlagValue and
\* GetFlagValues returned, in the order main evaluates them
MainCallOf(f, got) ==
  IF \E i \in 1..Len(got) : got[i].err # ""
  THEN [err |-> got[CHOOSE i \in 1..Len(got) :
                      /\ got[i].err # ""
                      /\ \A j \in 1..(i - 1) : got[j].err = ""].err,
        call |-> [kwargs |-> [k \in {} |-> None], preinst |-> None, postinst |-> None,
                  prerm |-> None, postrm |-> None, conffiles |-> None]]
  ELSE [err |-> "",
        call |-> [preinst |-> got[1].val, postinst |-> got[2].val, prerm |-> got[3].val,
                  postrm |-> got[4].val, conffiles |-> got[5].val,
                  kwargs |->
                    [package |-> f["package"],
                     version |-> got[6].val,
                     description |-> got[7].val,
                     maintainer |-> f["maintainer"],
                     section |-> f["section"],
                     architecture |-> f["architecture"],
                     depends |-> f["depends"],
                     suggests |-> f["suggests"],
                     enhances |-> f["enhances"],
                     preDepends |-> f["pre_depends"],
                     recommends |-> f["recommends"],
                     homepage |-> f["homepage"],
                     builtUsing |-> got[8].val,
                     priority |-> f["priority"],
                     conflicts |-> f["conflicts"],
                     installedSize |-> got[9].val]]]

MainCall(f, files, encoding, v) ==
  Only({ MainCallOf(f, got) :
           got \in {<<GetFlagValue(f["preinst"], FALSE, files, encoding, v),
                      GetFlagValue(f["postinst"], FALSE, files, encoding, v),
                      GetFlagValue(f["prerm"], FALSE, files, encoding, v),
                      GetFlagValue(f["postrm"], FALSE, files, encoding, v),
                      GetFlagValues(f["conffile"], files, encoding, v),
                      GetFlagValue(f["version"], TRUE, files, encoding, v),
                      GetFlagValue(f["description"], TRUE, files, encoding, v),
                      GetFlagValue(f["built_using"], TRUE, files, encoding, v),
                      GetFlagValue(f["installed_size"], TRUE, files, encoding, v)>>} })

\* the identity main passes to CreateChanges, lines 330-338
ChangesArgs(f, files, encoding, v) ==
  [architecture |-> f["architecture"].v,
   short_description |-> Split(GetFlagValue(f["description"], TRUE, files, encoding, v).val.v, "\n")[1],
   maintainer |-> f["maintainer"].v,
   package |-> f["package"].v,
   version |-> GetFlagValue(f["version"], TRUE, files, encoding, v).val.v,
   section |-> f["section"].v,
   priority |-> f["priority"].v,
   distribution |-> f["distribution"].v,
   urgency |-> f["urgency"].v]

-----------------------------------------------------------------------------
(* The inputs *)

\* the native str holding the text s: its UTF-8 bytes under Python 2
NativeOf(s, v) == IF v = 2 THEN Bytes(Utf8Encode(s)) ELSE Text(s)

NoKwargs == [k \in {} |-> None]

LongDescription ==
  "A caf~-grade packaging helper\nthat assembles the archive member by member and keeps going well past the seventy-column limit of one line"

\* the metadata a caller passes to CreateDeb
KwargsChoices(v) ==
  { p @@ m @@ d @@ o @@ ("version" :> Native("1.0", v)) :
      p \in {NoKwargs, "package" :> None, "package" :> Native("", v),
             "package" :> Native("foo", v)},
      m \in {NoKwargs, "maintainer" :> Native("a@b.com", v)},
      d \in {"description" :> Native("short\nlong story", v),
             "description" :> NativeOf(LongDescription, v)},
      o \in {NoKwargs,
             ("section" :> Native("", v)) @@ ("suggests" :> List(<<>>))
                @@ ("homepage" :> None),
             ("section" :> Native("utils", v))
                @@ ("depends" :> StrList(<<"libc6", "python">>, v))} }

\* the maintainer scripts and conffiles a caller passes
ScriptChoices(v) ==
  { [kwargs |-> NoKwargs, preinst |-> pre, postinst |-> None, prerm |-> None,
     postrm |-> None, conffiles |-> conf] :
      pre \in {None, Native("run", v), Text("r~n"), NativeOf("r~n", v)},
      conf \in {None, StrList(<<"/etc/a", "/etc/b">>, v)} }

DataNames ==
  {"payload.tgz", "payload.tar.bzip2", "data.tar.gz", "payload.xyz", "payload",
   "a.tar.bz2", "a.tar.xz", "a.tar.lzma", "a.tar.xz.tmp", "build.d/payload", "tgz",
   "x.tar"}

RECURSIVE Repeat(_, _)
Repeat(c, n) == IF n = 0 THEN "" ELSE c \o Repeat(c, n - 1)

DefaultData ==
  [name |-> "data.tar.gz", exists |-> TRUE, readable |-> TRUE, content |-> "xy"]

\* the data path as the file system holds it
DataChoices ==
  { [name |-> "payload.tgz", exists |-> FALSE, readable |-> FALSE, content |-> ""],
    [name |-> "payload.tgz", exists |-> TRUE, readable |-> FALSE, content |-> "xy"] }
  \cup { [name |-> n, exists |-> TRUE, readable |-> TRUE, content |-> "xy"] : n \in DataNames }
  \cup { [name |-> "data.tar.gz", exists |-> TRUE, readable |-> TRUE,
          content |-> Repeat("d", k)] : k \in 0..MaxDataLen }

\* the output path before the call: absent, or left by an earlier build
OutChoices == { [exists |-> FALSE, bytes |-> ""], [exists |-> TRUE, bytes |-> "stale"] }

OutputPath == "bazel-bin/pkg/foo_1.0_all.deb"

NoCall ==
  [kwargs |-> NoKwargs, preinst |-> None, postinst |-> None, prerm |-> None,
   postrm |-> None, conffiles |-> None]
NoData == [name |-> "", exists |-> FALSE, readable |-> FALSE, content |-> ""]
NoControl == [err |-> "", controlfile |-> "", entries |-> <<>>, bytes |-> ""]
NoFile == [exists |-> FALSE, bytes |-> ""]

\* the arguments of the direct calls of AddArFileEntry
ArArg(filename, content, content_len, timestamp, owner_id, group_id, mode) ==
  [filename |-> filename, content |-> content, content_len |-> content_len,
   timestamp |-> timestamp, owner_id |-> owner_id, group_id |-> group_id, mode |-> mode]

ArArgChoices ==
  { ArArg(n, c[1], c[2], 0, 0, 0, 420) :
      n \in {"a", "sixteen_chars_xy"},
      c \in { <<Bytes(""), -1>>, <<Bytes("abc"), -1>>, <<Bytes("abc"), 3>>,
              <<Bytes("abc"), 5>>, <<Bytes("2.0\n"), -1>>, <<Text("abc"), -1>>,
              <<File("hello"), 5>>, <<File("hello"), 4>>, <<File("hi"), -1>>,
              <<None, 5>> } }
  \cup { ArArg("fifteen_chars_x", Bytes("abc"), -1, 0, 0, 0, 420) }
  \cup { ArArg("a", Bytes("abc"), -1, m[1], m[2], m[3], m[4]) :
           m \in { <<0, 1234567, 0, 420>>, <<0, 0, 1234567, 420>>, <<0, 0, 0, 0>>,
                   <<0, 0, 0, 16777215>>, <<1500000000, 1000, 1000, 493>>,
                   <<0, 999999, 999999, 33188>> } }

\* the files the flags name with '@'
FlagFiles ==
  ("v.txt" :> " 1.0\n") @@ ("pre.sh" :> "run\n") @@ ("conf.txt" :> "/etc/c\n")
    @@ ("cr.txt" :> "a\r\nb\rc\n") @@ ("acc.txt" :> "r{}n\n")

\* the time zones of the process, in seconds east of UTC: New York, UTC, Tokyo
UtcOffsets == {-18000, 0, 32400}

\* the encodings of the locale
LocaleEncodings == {"utf-8", "ascii"}

Env(utcoffset, encoding) == [utcoffset |-> utcoffset, encoding |-> encoding]

DefaultEnv == Env(0, "utf-8")

\* FLAGS with the mandatory flags given
BaseFlags(v) ==
  ("package" :> Native("foo", v)) @@ ("version" :> Native("1.0", v))
    @@ ("maintainer" :> Native("a@b.com", v))
    @@ ("description" :> Native("short\nlong story", v)) @@ DefaultFlags(v)

\* the command lines of main: one flag or two changed at a time
FlagChoices(v) ==
  { over @@ BaseFlags(v) :
      over \in
        {NoFlags,
         "package" :> Native("", v),
         "version" :> Native(" 1.0\n", v),
         "version" :> Native("\t1.0\r", v),
         "version" :> Native("@v.txt", v),
         "version" :> Native("@missing.txt", v),
         "description" :> NativeOf(LongDescription, v),
         "description" :> Native("tab\tseparated\nand more", v),
         "distribution" :> Native("stable", v),
         "urgency" :> Native("high", v),
         ("distribution" :> Native("stable", v)) @@ ("urgency" :> Native("high", v)),
         "section" :> Native("utils", v),
         "section" :> Native("", v),
         "depends" :> StrList(<<"libc6", "python">>, v),
         "homepage" :> Native("http://example.com", v),
         "preinst" :> Native("run", v),
         "preinst" :> Native("@pre.sh", v),
         "preinst" :> Native("@cr.txt", v),
         "preinst" :> Native("@acc.txt", v),
         "postrm" :> NativeOf("r~n", v),
         "conffile" :> StrList(<<"/etc/a", "@conf.txt">>, v),
         "conffile" :> StrList(<<"@missing.txt">>, v)} }

\* the runs of main: every command line with the default data file, the
\* plain command line with every size of data file and in every time zone,
\* and the command lines that read a file in every encoding of the locale
MainRuns(v) ==
  { <<f, DefaultData, DefaultEnv>> : f \in FlagChoices(v) }
  \cup { <<BaseFlags(v),
           [name |-> "data.tar.gz", exists |-> TRUE, readable |-> TRUE,
            content |-> Repeat("d", k)], DefaultEnv>> : k \in 0..MaxDataLen }
  \cup { <<BaseFlags(v), DefaultData, Env(z, "utf-8")>> : z \in UtcOffsets }
  \cup { <<("preinst" :> Native(n, v)) @@ BaseFlags(v), DefaultData, Env(0, e)>> :
           n \in {"@cr.txt", "@acc.txt", "@pre.sh"}, e \in LocaleEncodings }

-----------------------------------------------------------------------------
(* The state machine *)

\* the calls of CreateDeb: every metadata and script choice with the default
\* data path, and every data path with one complete metadata
DefaultKwargs(v) ==
  ("package" :> Native("foo", v)) @@ ("version" :> Native("1.0", v))
    @@ ("maintainer" :> Native("a@b.com", v))
    @@ ("description" :> Native("short\nlong story", v))

DebCalls(v) ==
  { <<[sc EXCEPT !.kwargs = kw], DefaultData>> :
       kw \in KwargsChoices(v), sc \in ScriptChoices(v) }
  \cup { <<[NoCall EXCEPT !.kwargs = DefaultKwargs(v)], d>> : d \in DataChoices }

\* a caller about to call CreateDeb
InitDeb ==
  /\ py \in {2, 3}
  /\ \E c \in DebCalls(py) : call = c[1] /\ data = c[2]
  /\ out \in OutChoices
  /\ pc = "start"
  /\ exc = ""
  /\ control = NoControl
  /\ ar = <<>>
  /\ flags = NoFlags
  /\ env = DefaultEnv
  /\ changes = NoFile

\* a caller about to write an AR container of its own with AddArFileEntry
InitAr ==
  /\ py \in {2, 3}
  /\ call = NoCall
  /\ data = NoData
  /\ out = NoFile
  /\ pc = "ar_open"
  /\ exc = ""
  /\ control = NoControl
  /\ ar = <<>>
  /\ flags = NoFlags
  /\ env = DefaultEnv
  /\ changes = NoFile

\* main about to run, the flags parsed
InitMain ==
  /\ py \in {2, 3}
  /\ call = NoCall
  /\ \E r \in MainRuns(py) : flags = r[1] /\ data = r[2] /\ env = r[3]
  /\ out \in OutChoices
  /\ pc = "main"
  /\ exc = ""
  /\ control = NoControl
  /\ ar = <<>>
  /\ changes = NoFile

Init == InitDeb \/ InitMain \/ InitAr

\* a stream that loses the padding of a member: the layout of the package
\* (C2) must tell it apart
ArCall_DropsPad(a, next_pc, failed_pc) ==
  \E r \in {AddArFileEntry(a.filename, a.content, a.content_len, a.timestamp,
                           a.owner_id, a.group_id, a.mode, py)} :
     /\ out' = [out EXCEPT !.bytes = @ \o r.header \o r.payload]
     /\ ar' = Append(ar, ArLogEntry(a.filename, a.content, a.content_len, a.timestamp,
                                    a.owner_id, a.group_id, a.mode, r))
     /\ pc' = IF r.err = "" THEN next_pc ELSE failed_pc
     /\ exc' = r.err

\* one call of AddArFileEntry on the output stream: the bytes are appended
\* and the call is logged
ArCall(a, next_pc, failed_pc) ==
  \E r \in {AddArFileEntry(a.filename, a.content, a.content_len, a.timestamp,
                           a.owner_id, a.group_id, a.mode, py)} :
     /\ out' = [out EXCEPT !.bytes = @ \o ArWritten(r)]
     /\ ar' = Append(ar, ArLogEntry(a.filename, a.content, a.content_len, a.timestamp,
                                    a.owner_id, a.group_id, a.mode, r))
     /\ pc' = IF r.err = "" THEN next_pc ELSE failed_pc
     /\ exc' = r.err

\* CreateDeb, lines 185-196: the extra files and the control tarball
CreateDebBuildControl ==
  /\ pc = "start"
  /\ \E extras \in ItemsOrders(ExtraFiles(call, py), py) :
       \E r \in {IF ExtraFilesError(call, py) # ""
                 THEN [NoControl EXCEPT !.err = ExtraFilesError(call, py)]
                 ELSE CreateDebControl(extras, call.kwargs, py)} :
          IF r.err = ""
          THEN /\ control' = r
               /\ pc' = "open"
               /\ exc' = ""
          ELSE /\ control' = control
               /\ pc' = "failed"
               /\ exc' = r.err
  /\ UNCHANGED <<py, call, data, out, ar, changes, flags, env>>

\* CreateDeb, lines 199-200: open(output, 'wb') creates or truncates the
\* file; the magic is written
CreateDebOpen ==
  /\ pc = "open"
  /\ out' = [exists |-> TRUE, bytes |-> ArMagic]
  /\ pc' = "debian-binary"
  /\ UNCHANGED <<py, call, data, exc, control, ar, changes, flags, env>>

\* CreateDeb, line 201
CreateDebBinaryMember ==
  /\ pc = "debian-binary"
  /\ ArCall(ArArg("debian-binary", Bytes("2.0\n"), -1, 0, 0, 0, 420), "control", "failed")
  /\ UNCHANGED <<py, call, data, control, changes, flags, env>>

\* CreateDeb, line 202
CreateDebControlMember ==
  /\ pc = "control"
  /\ ArCall(ArArg("control.tar.gz", Bytes(control.bytes), -1, 0, 0, 0, 420), "data", "failed")
  /\ UNCHANGED <<py, call, data, control, changes, flags, env>>

\* a CreateDeb that never looks at the data path and writes a data member
\* all the same: the failure on the data path (C3) must tell it apart
CreateDebDataMember_NoStat ==
  /\ pc = "data"
  /\ ArCall(ArArg("data." \o DataExt(data.name), File(data.content),
                  Len(data.content), 0, 0, 0, 420), "done", "failed")
  /\ UNCHANGED <<py, call, data, control, changes, flags, env>>

\* CreateDeb, lines 203-217: the suffix, os.stat and open of the data path,
\* and the data member; leaving the with block closes the output
CreateDebDataMember ==
  /\ pc = "data"
  /\ IF ~data.exists
     THEN /\ pc' = "failed"
          /\ exc' = "OSError"
          /\ UNCHANGED <<out, ar, flags, env>>
     ELSE IF ~data.readable
     THEN /\ pc' = "failed"
          /\ exc' = "IOError"
          /\ UNCHANGED <<out, ar, flags, env>>
     ELSE ArCall(ArArg("data." \o DataExt(data.name), File(data.content),
                       Len(data.content), 0, 0, 0, 420), "done", "failed")
  /\ UNCHANGED <<py, call, data, control, changes, flags, env>>

\* main, lines 306-329: the arguments are evaluated, then CreateDeb is called
MainCallCreateDeb ==
  /\ pc = "main"
  /\ \E r \in {MainCall(flags, FlagFiles, env.encoding, py)} :
        IF r.err = ""
        THEN /\ call' = r.call
             /\ pc' = "start"
             /\ exc' = ""
        ELSE /\ call' = call
             /\ pc' = "main_failed"
             /\ exc' = r.err
  /\ UNCHANGED <<py, data, out, control, ar, flags, changes, env>>

\* main, lines 330-338: CreateChanges on the finished package, once CreateDeb
\* has returned
CallCreateChanges ==
  /\ pc = "done"
  /\ flags # NoFlags
  /\ \E r \in {CreateChanges(changes, OutputPath, out.bytes,
                             ChangesArgs(flags, FlagFiles, env.encoding, py),
                             DefaultTimestamp, env.utcoffset, py)} :
        /\ changes' = r.file
        /\ pc' = IF r.err = "" THEN "changes_done" ELSE "changes_failed"
        /\ exc' = r.err
  /\ UNCHANGED <<py, call, data, out, control, ar, flags, env>>

\* the direct caller opens its stream and writes the magic
ArOpen ==
  /\ pc = "ar_open"
  /\ out' = [exists |-> TRUE, bytes |-> ArMagic]
  /\ pc' = "ar"
  /\ UNCHANGED <<py, call, data, exc, control, ar, changes, flags, env>>

\* the direct caller adds one more entry
ArAdd ==
  /\ pc = "ar"
  /\ Len(ar) < MaxCalls
  /\ \E a \in ArArgChoices : ArCall(a, "ar", "ar_failed")
  /\ UNCHANGED <<py, call, data, control, changes, flags, env>>

Next ==
  \/ MainCallCreateDeb
  \/ CreateDebBuildControl
  \/ CreateDebOpen
  \/ CreateDebBinaryMember
  \/ CreateDebControlMember
  \/ CreateDebDataMember
  \/ CallCreateChanges
  \/ ArOpen
  \/ ArAdd

Spec == Init /\ [][Next]_vars

-----------------------------------------------------------------------------
(* The properties of the AR writer *)

\* the calls of AddArFileEntry that returned
Returned == { i \in 1..Len(ar) : ar[i].err = "" }

\* the arguments of a call fit the widths of the header fields: a name of at
\* most 15 characters before the '/', ids of at most 6 digits, a mode of at
\* most 7 octal digits after the leading 0.  (A timestamp fits 12 and a
\* length fits 10 characters for every integer of the model.)
FitsWidths(e) ==
  /\ Len(e.filename) <= 15
  /\ e.owner_id >= 0 /\ e.owner_id < 1000000
  /\ e.group_id >= 0 /\ e.group_id < 1000000
  /\ e.mode >= 0 /\ e.mode < 2097152

\* C5 as the specification states it: every call that returns has written a
\* header of exactly 60 bytes, whatever its arguments.
C5_HeaderAlways60 == \A i \in Returned : Len(ar[i].header) = 60

\* C5, amended: a call that returns has written a header of exactly 60 bytes
\* if and only if its arguments fit the widths of the fields, ljust never
\* truncating; the three members of CreateDeb always fit, so their headers
\* are 60 bytes whatever the size of the data file.
C5_HeaderWidth ==
  /\ \A i \in Returned : (Len(ar[i].header) = 60) <=> FitsWidths(ar[i])
  /\ call # NoCall => \A i \in Returned : Len(ar[i].header) = 60

C5_Witness ==
  /\ pc = "ar"
  /\ \E i \in Returned : Len(ar[i].filename) = 15 /\ Len(ar[i].header) = 60
  /\ \E i \in Returned : ar[i].owner_id = 999999 /\ Len(ar[i].header) = 60

\* the output stream was opened and holds what the calls wrote after the magic
StreamOpen == pc \in {"debian-binary", "control", "data", "done", "ar", "ar_failed"}

\* the bytes the logged calls wrote, in all
RECURSIVE WrittenLen(_)
WrittenLen(log) ==
  IF Len(log) = 0 THEN 0
  ELSE Len(log[1].header) + Len(log[1].payload) + Len(log[1].pad)
         + WrittenLen(Tail(log))

\* the write offset before call i
OffsetBefore(i) == 8 + WrittenLen(SubSeq(ar, 1, i - 1))

\* C6 as the specification states it: after the magic and any sequence of
\* calls that returned the write offset is even, every header starts on an
\* even offset, and every call advances the offset by 60 + payload + padding,
\* the padding being one newline exactly when the payload is odd.
C6_AlwaysEven ==
  (StreamOpen /\ Returned = 1..Len(ar)) =>
     /\ Len(out.bytes) % 2 = 0
     /\ \A i \in 1..Len(ar) :
          /\ OffsetBefore(i) % 2 = 0
          /\ Len(ar[i].header) + Len(ar[i].payload) + Len(ar[i].pad)
               = 60 + Len(ar[i].payload) + Len(ar[i].pad)

\* C6, amended: every call that returns writes one newline after the payload
\* if and only if the payload it wrote is odd, and the stream holds the magic
\* and what the calls wrote; when the arguments of all the calls fit the
\* widths of the header fields, each call advances the offset by
\* 60 + payload + padding and every header starts on an even offset.
C6_Alignment ==
  /\ \A i \in Returned :
        ar[i].pad = (IF Len(ar[i].payload) % 2 = 1 THEN "\n" ELSE "")
  /\ StreamOpen => Len(out.bytes) = 8 + WrittenLen(ar)
  /\ (StreamOpen /\ Returned = 1..Len(ar) /\ \A i \in 1..Len(ar) : FitsWidths(ar[i])) =>
        /\ Len(out.bytes) % 2 = 0
        /\ \A i \in 1..Len(ar) :
             /\ OffsetBefore(i) % 2 = 0
             /\ OffsetBefore(i + 1) - OffsetBefore(i)
                  = 60 + Len(ar[i].payload) + Len(ar[i].pad)

C6_Witness ==
  /\ pc = "ar"
  /\ Len(ar) = 2
  /\ Returned = {1, 2}
  /\ FitsWidths(ar[1]) /\ FitsWidths(ar[2])
  /\ Len(ar[1].payload) = 3 /\ ar[1].pad = "\n"
  /\ Len(ar[2].payload) = 4 /\ ar[2].pad = ""
  /\ Len(out.bytes) = 8 + 64 + 64

\* the size field of a header: the 10 characters before the end of the entry
SizeField(header) == SubSeq(header, Len(header) - 11, Len(header) - 2)

\* the header of call i declares the number of payload bytes written after it
DeclaresWritten(i) == SizeField(ar[i].header) = Ljust(ToString(Len(ar[i].payload)), 10)

\* C7 as the specification states it: every member a call that returned has
\* written declares the number of payload bytes written after its header.
C7_DeclaredIsWritten == \A i \in Returned : DeclaresWritten(i)

\* C7, amended: the declared length is the number of payload bytes written
\* if and only if content_len was left to default on str/bytes content, or
\* the explicit content_len is the number of bytes the content holds (the
\* copy loop runs to the end of the content whatever content_len says); it
\* is so for the three members of CreateDeb, the data member declaring the
\* size os.stat reported.
C7_DeclaredLength ==
  /\ \A i \in Returned :
        DeclaresWritten(i) <=>
           \/ ar[i].content.t = "bytes" /\ ar[i].content_len < 0
           \/ ar[i].content_len = Len(ar[i].content.v)
  /\ pc = "done" =>
        /\ Returned = {1, 2, 3}
        /\ \A i \in 1..3 : DeclaresWritten(i)
        /\ ar[3].payload = data.content

C7_Witness ==
  /\ pc = "done"
  /\ Len(data.content) = MaxDataLen
  /\ SizeField(ar[3].header) = Ljust(ToString(MaxDataLen), 10)
  /\ SizeField(ar[1].header) = "4         "

-----------------------------------------------------------------------------
(* The properties of CreateDeb *)

\* a run of CreateDeb (the other runs call AddArFileEntry directly)
DebRun == pc \in {"start", "open", "debian-binary", "control", "data", "done", "failed",
                  "changes_done", "changes_failed"}

MandatoryKeys ==
  { FieldKey(DEBIAN_FIELDS[i].name) : i \in { j \in 1..Len(DEBIAN_FIELDS) :
                                                DEBIAN_FIELDS[j].mandatory } }

\* the metadata lacks a mandatory field: no such key, or None
MandatoryAbsent(kwargs) ==
  \E k \in MandatoryKeys : k \notin DOMAIN kwargs \/ kwargs[k].t = "none"

\* the metadata holds a mandatory field with the empty string
MandatoryEmpty(kwargs) ==
  \E k \in MandatoryKeys : k \in DOMAIN kwargs /\ kwargs[k] \in {Bytes(""), Text("")}

\* the output path is as it was before the call: never opened
OutputUntouched == out \in OutChoices /\ ar = <<>>

\* C1 as the specification states it: when a mandatory field is absent or
\* present with an empty value, CreateDeb fails, and the output path was
\* never opened.
C1_AbsentOrEmptyFails ==
  (DebRun /\ pc # "start"
     /\ (MandatoryAbsent(call.kwargs) \/ MandatoryEmpty(call.kwargs))) =>
        pc = "failed" /\ exc # "" /\ OutputUntouched

\* the exception of a call whose metadata lacks a mandatory field.  Python 2
\* fails on the first such field in the order of DEBIAN_FIELDS: KeyError at
\* the lookup when the key is absent, and for None the TypeError of
\* name + ': ' + None, or the AttributeError of None.split for the wrapped
\* Description.  Python 3 fails on Package, the first field: in the same way
\* when Package is the field that lacks, else with the AttributeError of
\* str.decode.
AbsentError(kwargs, v) ==
  LET f == DEBIAN_FIELDS[IF v = 3 THEN 1
                         ELSE Least({ i \in 1..Len(DEBIAN_FIELDS) :
                                        /\ DEBIAN_FIELDS[i].mandatory
                                        /\ \/ FieldKey(DEBIAN_FIELDS[i].name) \notin DOMAIN kwargs
                                           \/ kwargs[FieldKey(DEBIAN_FIELDS[i].name)].t = "none" })]
      k == FieldKey(f.name)
  IN IF k \notin DOMAIN kwargs THEN "KeyError"
     ELSE IF kwargs[k].t # "none" THEN "AttributeError"
     ELSE IF f.wrap THEN "AttributeError"
     ELSE "TypeError"

\* C1, as the code behaves: when a mandatory field is absent (or None),
\* CreateDeb fails while it builds the control file, with the exception
\* AbsentError gives, before the output path is opened: the path is left as
\* it was.  An empty string is not rejected: under Python 2, whenever every
\* mandatory field is a str, empty or not, the control file is built and
\* CreateDeb goes on to open the output, unless a maintainer script cannot
\* be encoded.
C1_AbsentFailsBeforeOpen ==
  [][ /\ (pc = "start" /\ MandatoryAbsent(call.kwargs)) =>
          /\ pc' = "failed"
          /\ exc' = AbsentError(call.kwargs, py)
          /\ out' = out
          /\ ar' = <<>>
      /\ (pc = "start" /\ py = 2 /\ ~MandatoryAbsent(call.kwargs)) =>
          \/ pc' = "open" /\ exc' = ""
          \/ pc' = "failed" /\ exc' = "UnicodeDecodeError" /\ out' = out ]_vars

C1_Witness ==
  /\ pc = "failed"
  /\ exc = "KeyError"
  /\ "package" \in DOMAIN call.kwargs
  /\ "maintainer" \notin DOMAIN call.kwargs
  /\ out = [exists |-> TRUE, bytes |-> "stale"]

\* the members of an AR stream after its magic, read back as a reader of the
\* format does: a 60-byte header ending with the end-of-entry bytes, the
\* payload its size field announces, and a newline after an odd payload.
\* What cannot be read so is a member named "?".
Unreadable == <<[name |-> "?", payload |-> ""]>>

RECURSIVE ArMembers(_)
ArMemberOfSize(rest, n) ==
  IF n % 2 = 1 /\ SubSeq(rest, 61 + n, 61 + n) # "\n" THEN Unreadable
  ELSE <<[name |-> SubSeq(rest, 1, 16), payload |-> SubSeq(rest, 61, 60 + n)]>>
         \o ArMembers(SubSeq(rest, 61 + n + (n % 2), Len(rest)))

ArMemberOfSizes(rest, sizes) ==
  IF sizes = {} THEN Unreadable ELSE ArMemberOfSize(rest, Only(sizes))

ArMembers(rest) ==
  IF Len(rest) = 0 THEN <<>>
  ELSE IF Len(rest) < 60 \/ SubSeq(rest, 59, 60) # "'\n" THEN Unreadable
  ELSE Only({ ArMemberOfSizes(rest, sizes) :
                sizes \in {{ n \in 0..(Len(rest) - 60) :
                               Ljust(ToString(n), 10) = SubSeq(rest, 49, 58) }} })

DataSuffixes == {"tar", "tar.gz", "tar.bz2", "tar.xz", "tar.lzma"}

\* C2: when CreateDeb returns, the file it wrote is the 8-byte magic followed
\* by exactly three members, debian-binary with the payload "2.0\n", then
\* control.tar.gz with the control tarball, then data.<ext> with the bytes of
\* the data file, each name followed by '/' and padded to 16 bytes, and
\* nothing before, between or after them.
C2_ThreeMembers ==
  pc = "done" =>
    /\ SubSeq(out.bytes, 1, 8) = "!<arch>\n"
    /\ \E m \in {ArMembers(SubSeq(out.bytes, 9, Len(out.bytes)))} :
         /\ Len(m) = 3
         /\ m[1] = [name |-> "debian-binary/  ", payload |-> "2.0\n"]
         /\ m[2] = [name |-> "control.tar.gz/ ", payload |-> control.bytes]
         /\ m[3].name \in { Ljust("data." \o e \o "/", 16) : e \in DataSuffixes }
         /\ m[3].payload = data.content

C2_Witness ==
  /\ pc = "done"
  /\ data.name = "a.tar.lzma"
  /\ Len(data.content) = 2
  /\ Len(out.bytes) > 8 + 3 * 60

\* C3 as the specification states it: when the data path is missing or
\* unreadable and CreateDeb fails with the I/O error, the output path has
\* not been created or truncated and holds nothing of the package.
C3_DataErrorBeforeOutput ==
  (DebRun /\ pc = "failed" /\ exc \in {"OSError", "IOError"}) => OutputUntouched

\* C3, amended: CreateDeb returns only when the data path exists and can be
\* read.  It looks at the data path after it has opened the output and
\* written the first two members: when the path is missing (OSError) or
\* unreadable (IOError), the output path exists, truncated, and holds the
\* magic, the debian-binary member and the control.tar.gz member, and no
\* data member.
C3_DataErrorAfterTwoMembers ==
  /\ (DebRun /\ pc \in {"done", "changes_done", "changes_failed"}) =>
        data.exists /\ data.readable
  /\ (DebRun /\ pc = "failed" /\ exc \in {"OSError", "IOError"}) =>
        /\ \/ ~data.exists /\ exc = "OSError"
           \/ data.exists /\ ~data.readable /\ exc = "IOError"
        /\ Len(ar) = 2
        /\ ar[1].filename = "debian-binary" /\ ar[2].filename = "control.tar.gz"
        /\ out = [exists |-> TRUE,
                  bytes |-> "!<arch>\n" \o ar[1].header \o ar[1].payload \o ar[1].pad
                              \o ar[2].header \o ar[2].payload \o ar[2].pad]

C3_Witness ==
  /\ pc = "failed"
  /\ exc = "OSError"
  /\ ~data.exists
  /\ Len(ar) = 2
  /\ SubSeq(out.bytes, 1, 24) = "!<arch>\ndebian-binary/  "

\* the suffix the specification gives the data member of a data file
ClaimedExt(path) ==
  LET parts == Split(Basename(path), ".")
      n == Len(parts)
  IN IF n >= 2 /\ parts[n] = "tgz" THEN "tar.gz"
     ELSE IF n >= 2 /\ parts[n - 1] = "tar" /\ parts[n] = "bzip2" THEN "tar.bz2"
     ELSE IF n >= 2 /\ parts[n - 1] = "tar" /\ parts[n] \in {"gz", "bz2", "xz", "lzma"}
     THEN "tar." \o parts[n]
     ELSE "tar"

\* C4 as the specification states it: the data member is named data.<ext>,
\* <ext> being tar.gz for a last component tgz, tar.bz2 for the last two
\* components tar.bzip2, the last two components when they are tar.gz,
\* tar.bz2, tar.xz or tar.lzma, and tar for every other name.
C4_SuffixOfDataMember ==
  pc = "done" =>
    /\ ar[3].filename = "data." \o ClaimedExt(data.name)
    /\ ClaimedExt(data.name) \in DataSuffixes

\* C4, as the code behaves: the member is named as the specification says
\* for every data file but one whose last two components are tar.bzip2,
\* whose member is data.tar: the comparison of one component with
\* 'tar.bzip2' never succeeds.
C4_SuffixButBzip2 ==
  pc = "done" =>
    \E parts \in {Split(Basename(data.name), ".")} :
       ar[3].filename =
         IF Len(parts) >= 2 /\ parts[Len(parts) - 1] = "tar" /\ parts[Len(parts)] = "bzip2"
         THEN "data.tar"
         ELSE "data." \o ClaimedExt(data.name)

\* the data file named payload.tar.bzip2 ends as the member data.tar
C4_Witness ==
  /\ pc = "done"
  /\ data.name = "payload.tar.bzip2"
  /\ ar[3].filename = "data.tar"

-----------------------------------------------------------------------------
(* The properties of the control file and the control tarball *)

\* CreateDebControl has returned the tarball of this run
ControlBuilt == DebRun /\ pc \notin {"start", "failed"}

\* the metadata supplies a non-empty value for the row
Supplied(f, kwargs) ==
  FieldKey(f.name) \in DOMAIN kwargs /\ Truthy(kwargs[FieldKey(f.name)])

\* the rows in rows, rendered in the order of DEBIAN_FIELDS with the value
\* value(i) gives each
RECURSIVE FieldsInOrder(_, _, _)
FieldsInOrder(rows, value(_), v) ==
  IF rows = {} THEN ""
  ELSE LET i == CHOOSE r \in rows : \A q \in rows : r <= q
       IN MakeDebianControlField(DEBIAN_FIELDS[i].name, value(i), DEBIAN_FIELDS[i].wrap, v).val.v
            \o FieldsInOrder(rows \ {i}, value, v)

\* the control file the specification describes: an optional field without a
\* supplied value takes the default of its row, and is omitted when the row
\* has none or an empty one
HasDefault(f) == f.dflt = "str" /\ f.dv # ""

ControlFileWithDefaults(kwargs, v) ==
  LET value(i) == IF Supplied(DEBIAN_FIELDS[i], kwargs) \/ DEBIAN_FIELDS[i].mandatory
                  THEN kwargs[FieldKey(DEBIAN_FIELDS[i].name)]
                  ELSE Native(DEBIAN_FIELDS[i].dv, v)
  IN FieldsInOrder({ i \in 1..Len(DEBIAN_FIELDS) :
                       \/ DEBIAN_FIELDS[i].mandatory
                       \/ Supplied(DEBIAN_FIELDS[i], kwargs)
                       \/ HasDefault(DEBIAN_FIELDS[i]) }, value, v)

\* the control file without the defaults: the mandatory fields and the
\* optional fields with a supplied non-empty value
ControlFileOfSupplied(kwargs, v) ==
  LET value(i) == kwargs[FieldKey(DEBIAN_FIELDS[i].name)]
  IN FieldsInOrder({ i \in 1..Len(DEBIAN_FIELDS) :
                       \/ DEBIAN_FIELDS[i].mandatory
                       \/ Supplied(DEBIAN_FIELDS[i], kwargs) }, value, v)

\* C8 as the specification states it: the control file is, in the order of
\* DEBIAN_FIELDS, every mandatory field, every optional field with a supplied
\* non-empty value, and every other optional field with its schema default,
\* unless it has no default or an empty one.
C8_DefaultsRendered ==
  ControlBuilt => control.controlfile = ControlFileWithDefaults(call.kwargs, py)

\* the value a run of main gives the row: the value of its flag (the default
\* of the row when the command line does not give the flag), read through
\* GetFlagValue for the four flags main reads so
MainValue(i) ==
  LET n == FlagName(DEBIAN_FIELDS[i].name)
  IN IF n \in {"version", "description", "built_using", "installed_size"}
     THEN GetFlagValue(flags[n], TRUE, FlagFiles, env.encoding, py).val
     ELSE flags[n]

\* the rows main hands to CreateDeb: all but Distribution and Urgency
MainRows ==
  { i \in 1..Len(DEBIAN_FIELDS) : DEBIAN_FIELDS[i].name \notin {"Distribution", "Urgency"} }

\* C8, amended: the control file CreateDebControl builds is, in the order of
\* DEBIAN_FIELDS, every mandatory field and every optional field with a
\* supplied non-empty value, and nothing else: an optional field with no
\* supplied value (or an empty one) is omitted whatever the default of its
\* row, which CreateDebControl never reads.  The defaults are the defaults of
\* the command-line flags: in a run of main every row but Distribution and
\* Urgency is rendered with its flag, hence its default when the flag is not
\* given, unless that value is empty; Distribution and Urgency never are.
C8_SuppliedRendered ==
  /\ ControlBuilt => control.controlfile = ControlFileOfSupplied(call.kwargs, py)
  /\ (ControlBuilt /\ flags # NoFlags) =>
        control.controlfile
          = FieldsInOrder({ i \in MainRows : DEBIAN_FIELDS[i].mandatory \/ Truthy(MainValue(i)) },
                          MainValue, py)

C8_Witness ==
  /\ pc = "open"
  /\ "section" \in DOMAIN call.kwargs /\ call.kwargs["section"].v = "utils"
  /\ "priority" \notin DOMAIN call.kwargs
  /\ control.controlfile
       = "Package: foo\nVersion: 1.0\nSection: utils\nDepends: libc6, python\n"
           \o "Maintainer: a@b.com\nDescription: short long story\n"

\* C10 as the specification states it: every entry of the control tarball
\* declares as its size the number of bytes of the encoded content handed to
\* the tar writer, and the extra files keep the names and modes of
\* extrafiles, after the control entry.
C10_TarSizes ==
  ControlBuilt =>
    /\ \A i \in 1..Len(control.entries) :
         control.entries[i].size = Len(control.entries[i].handed)
    /\ control.entries[1].name = "control"
    /\ { [name |-> control.entries[i].name, mode |-> control.entries[i].mode] :
            i \in 2..Len(control.entries) }
         = { [name |-> x.name, mode |-> x.mode] :
               x \in { ExtraFiles(call, py)[j] : j \in 1..Len(ExtraFiles(call, py)) } }

\* C10, as the code behaves: the control entry declares the number of bytes
\* handed in; an extra file declares the number of characters of its content
\* (len(data)), and the archive holds that many of the bytes handed in.
C10_ExtraSizeIsCharCount ==
  ControlBuilt =>
    /\ control.entries[1].size = Len(control.entries[1].handed)
    /\ \A i \in 2..Len(control.entries) :
         \E x \in { ExtraFiles(call, py)[j] : j \in 1..Len(ExtraFiles(call, py)) } :
            /\ x.name = control.entries[i].name
            /\ control.entries[i].size = Len(x.data.v)
            /\ control.entries[i].data
                 = SubSeq(control.entries[i].handed, 1, Len(x.data.v))

\* a preinst of three characters, one of them two bytes long, is declared 3
\* bytes long and loses its last byte
C10_Witness ==
  /\ pc = "open"
  /\ py = 2
  /\ call.preinst = Text("r~n")
  /\ \E i \in 1..Len(control.entries) :
        /\ control.entries[i].name = "preinst"
        /\ control.entries[i].size = 3
        /\ control.entries[i].handed = "r{}n"
        /\ control.entries[i].data = "r{}"

-----------------------------------------------------------------------------
(* The properties of the changes file *)

\* the lines of the changes file that begin a field, and the names of the
\* fields
IsFieldLine(l) == Len(l) > 0 /\ SubSeq(l, 1, 1) # " "

FieldNames(lines) ==
  [ i \in 1..Len(SelectSeq(lines, IsFieldLine)) |->
      Split(SelectSeq(lines, IsFieldLine)[i], ":")[1] ]

\* the line after the line "name: " is an entry of these words, the first
\* being the digest, the second the size and the last the basename
EntryAfter(lines, name, words) ==
  \E k \in 1..(Len(lines) - 1) :
     /\ lines[k] = name \o ": "
     /\ lines[k + 1] = " " \o Join(words, " ")
     /\ k + 2 <= Len(lines) => ~(Len(lines[k + 2]) > 0 /\ SubSeq(lines[k + 2], 1, 1) = " ")

\* C9: the changes file CreateChanges writes for the finished package holds
\* the identity fields, then one Files field, then Checksums-Sha1, then
\* Checksums-Sha256, and no other field; each of the three holds one entry,
\* with the md5, sha1 and sha256 digest of all the bytes of the package, the
\* number of those bytes, and the basename of the package path.
C9_ChangesEntries ==
  pc = "changes_done" =>
    \E lines \in {Split(changes.bytes, "\n")} :
      \E size \in {ToString(Len(out.bytes))} :
       /\ FieldNames(lines)
            = <<"Format", "Date", "Source", "Binary", "Architecture", "Version",
                "Distribution", "Urgency", "Maintainer", "Changed-By", "Description",
                "Changes", "Files", "Checksums-Sha1", "Checksums-Sha256">>
       /\ EntryAfter(lines, "Files",
                     <<HexDigest("md5", out.bytes), size, flags["section"].v,
                       flags["priority"].v, "foo_1.0_all.deb">>)
       /\ EntryAfter(lines, "Checksums-Sha1",
                     <<HexDigest("sha1", out.bytes), size, "foo_1.0_all.deb">>)
       /\ EntryAfter(lines, "Checksums-Sha256",
                     <<HexDigest("sha256", out.bytes), size, "foo_1.0_all.deb">>)

C9_Witness ==
  /\ pc = "changes_done"
  /\ changes.exists
  /\ Len(data.content) = MaxDataLen
  /\ Len(out.bytes) = 8 + 64 + 60 + Len(control.bytes) + 60 + MaxDataLen + (MaxDataLen % 2)

=============================================================================
